---- MODULE Spec2Model ----
(***************************************************************************)
(* Model of the gRPC API server (pkg/api/server.go): the 'pods' service    *)
(* Create handler with its progress broadcaster goroutine, and the         *)
(* 'containers' service Attach and Signal handlers.  One RPC is served per *)
(* behaviour; the runtime client (s.client) is an opaque provider whose    *)
(* calls return success or failure nondeterministically.                   *)
(***************************************************************************)
EXTENDS Integers, Sequences, FiniteSets, TLC

\* ---------------------------------------------------------------- bounds
MaxContainers == 3
MaxTicks == 2
MaxHistory == 4

\* ---------------------------------------------------------------- inputs
\* Container i of the request's pod: a name and an image reference.
ContainerSpec(i) == [name |-> <<"c", i>>, image |-> <<"img", i>>]

PodContainers(n) == [i \in 1..n |-> ContainerSpec(i)]

MDKeys == {"namespace", "container"}

MDValues == {<< >>, <<"">>, <<"a">>, <<"b", "">>}

\* metadata.FromIncomingContext: ok = FALSE when the context has no metadata
IncomingContexts ==
    {[ok |-> FALSE, md |-> << >>]} \cup
    {[ok |-> TRUE, md |-> m] : m \in UNION {[S -> MDValues] : S \in SUBSET MDKeys}}

SignalNumbers == {-1, 0, 9, 15, 999}

SignalRequests ==
    [Namespace : {"ns1"}, ContainerID : {"c1", "c2"}, Signal : SignalNumbers]

\* The container lists GetContainers may return: the pod's containers in
\* either order.
Reversed(cs) == [i \in 1..Len(cs) |-> cs[Len(cs) + 1 - i]]

ContainerLists ==
    {PodContainers(n) : n \in 0..MaxContainers} \cup
    {Reversed(PodContainers(n)) : n \in 0..MaxContainers}

\* The namespaces a fetched device state may hold.
Namespaces == {"ns1", "ns2"}

\* Signal numbers the operating system knows by name (Linux: 1..64).
RecognizedSignals == 1..64

\* ---------------------------------------------------------------- state
VARIABLES
    rpc,          \* the handler this behaviour runs: "none" before the call
    pod,          \* Create: pod.Spec.Containers
    ppc,          \* Create: position of the handler (pipeline loop)
    idx,          \* Create: index of the container the loop is at
    progresses,   \* Create: the shared []*progress.ImageFetch
    done,         \* Create: TRUE once close(done) ran
    result,       \* Create: the value the handler returns
    log,          \* Create: provider calls/returns and AllDone marks, in order
    created,      \* provider: containers CreateContainer has created
    bpc,          \* broadcaster goroutine position
    timer,        \* the time.After channel of the current select
    ticks,        \* number of timer cases taken (bounded by MaxTicks)
    braced,       \* the read in progress overlapped a write of progresses
    bsnap,        \* images built by MapImageFetchProgressToAPIModel
    sends,        \* every server.Send issued, in order
    ctx,          \* Attach: the incoming context
    apc,          \* Attach: position of the handler
    aresult,      \* Attach: returned value
    attachCalls,  \* provider: Attach invocations
    sreq,         \* Signal: the request
    spc,          \* Signal: position of the handler
    sresult,      \* Signal: returned value
    signalCalls,  \* provider: Signal invocations
    lpc,          \* Start/Delete: position of the handler
    lcontainers,  \* Start/Delete: the containers GetContainers returned
    lidx,         \* Start/Delete: index of the container the loop is at
    lcalls,       \* provider: calls of the Start/Delete handler, in order
    affected,     \* provider: containers started (Start) or stopped (Delete)
    lresult,      \* Start/Delete: the returned (response, error)
    rpos,         \* State Reporter: position of the Start loop
    rhist         \* State Reporter: its last MaxHistory loop events

createVars == <<pod, ppc, idx, progresses, done, result, log, created,
                bpc, timer, ticks, braced, bsnap, sends>>
attachVars == <<ctx, apc, aresult, attachCalls>>
signalVars == <<sreq, spc, sresult, signalCalls>>
lifeVars == <<lpc, lcontainers, lidx, lcalls, affected, lresult>>
reporterVars == <<rpos, rhist>>
vars == <<rpc, createVars, attachVars, signalVars, lifeVars, reporterVars>>

\* ---------------------------------------------------------------- values
Pending == [status |-> "pending", msg |-> "", id |-> << >>]
Nil == [status |-> "nil", msg |-> "", id |-> << >>]
\* errors.Wrapf(err, msg + " [%s]", id)
Wrapf(msg, id) == [status |-> "error", msg |-> msg, id |-> id]
\* fmt.Errorf(msg) and errors returned unchanged
Errorf(msg) == [status |-> "error", msg |-> msg, id |-> << >>]

ProviderError == Errorf("provider error")

\* (nil, err) of a handler that returns a response and an error
NoResponse(err) == [hasPod |-> FALSE, pod |-> << >>, err |-> err]

\* mapping.CreatePodAPIModel(namespace, name, containers)
CreatePodAPIModel(namespace, name, containers) ==
    [metadata |-> [namespace |-> namespace, name |-> name],
     containers |-> [i \in 1..Len(containers) |-> containers[i].name]]

\* progress.NewImageFetch(container.Name, container.Image)
NewImageFetch(name, image) == [name |-> name, image |-> image, complete |-> FALSE]

\* progress.AllDone()
AllDone(p) == [p EXCEPT !.complete = TRUE]

\* mapping.MapImageFetchProgressToAPIModel(progresses)
MapImageFetchProgressToAPIModel(ps) ==
    [j \in 1..Len(ps) |->
        [containerID |-> ps[j].name, image |-> ps[j].image, resolved |-> ps[j].complete]]

N == Len(pod)

\* ---------------------------------------------------------------- Init
Init ==
    /\ rpc = "none"
    /\ pod = << >>
    /\ ppc = "idle"
    /\ idx = 0
    /\ progresses = << >>
    /\ done = FALSE
    /\ result = Pending
    /\ log = << >>
    /\ created = {}
    /\ bpc = "idle"
    /\ timer = "none"
    /\ ticks = 0
    /\ braced = FALSE
    /\ bsnap = << >>
    /\ sends = << >>
    /\ ctx = [ok |-> FALSE, md |-> << >>]
    /\ apc = "idle"
    /\ aresult = Pending
    /\ attachCalls = << >>
    /\ sreq = [Namespace |-> "", ContainerID |-> "", Signal |-> 0]
    /\ spc = "idle"
    /\ sresult = Pending
    /\ signalCalls = << >>
    /\ lpc = "idle"
    /\ lcontainers = << >>
    /\ lidx = 0
    /\ lcalls = << >>
    /\ affected = {}
    /\ lresult = NoResponse(Pending)
    /\ rpos = "idle"
    /\ rhist = << >>

\* The process is alive: no goroutine has panicked.
Alive == bpc # "panic" /\ apc # "panic"

\* ================================================================ Create
\* Lines 31-58: map the request, make done/progresses, defer close(done),
\* start the broadcaster goroutine, which enters its first select.
CreateCall(n) ==
    /\ rpc = "none"
    /\ rpc' = "Create"
    /\ pod' = PodContainers(n)
    /\ ppc' = "loop"
    /\ idx' = 1
    /\ progresses' = << >>
    /\ done' = FALSE
    /\ bpc' = "select"
    /\ timer' = "armed"
    /\ UNCHANGED <<result, log, created, ticks, braced, bsnap, sends>>
    /\ UNCHANGED <<attachVars, signalVars, lifeVars, reporterVars>>

\* Line 60, loop continues: the handler starts lines 61-62 (NewImageFetch and
\* the append to progresses).  The write is in progress while ppc = "append";
\* a read of progresses by the broadcaster that overlaps it is a data race.
BeginAppend ==
    /\ Alive
    /\ ppc = "loop"
    /\ idx <= N
    /\ ppc' = "append"
    /\ braced' = (braced \/ bpc = "tickRead")
    /\ UNCHANGED <<rpc, pod, idx, progresses, done, result, log, created,
                   bpc, timer, ticks, bsnap, sends>>
    /\ UNCHANGED <<attachVars, signalVars, lifeVars, reporterVars>>

\* AppendEntry putting the new entry in front of the collection.
AppendEntry_Prepends ==
    /\ Alive
    /\ ppc = "append"
    /\ progresses' = <<NewImageFetch(pod[idx].name, pod[idx].image)>> \o progresses
    /\ log' = Append(log, [ev |-> "call", op |-> "PullImage", i |-> idx, ok |-> TRUE])
    /\ ppc' = "pull"
    /\ UNCHANGED <<rpc, pod, idx, done, result, created,
                   bpc, timer, ticks, braced, bsnap, sends>>
    /\ UNCHANGED <<attachVars, signalVars, lifeVars, reporterVars>>

\* Lines 62-64: the append takes effect and PullImage is issued.
AppendEntry ==
    /\ Alive
    /\ ppc = "append"
    /\ progresses' = Append(progresses, NewImageFetch(pod[idx].name, pod[idx].image))
    /\ log' = Append(log, [ev |-> "call", op |-> "PullImage", i |-> idx, ok |-> TRUE])
    /\ ppc' = "pull"
    /\ UNCHANGED <<rpc, pod, idx, done, result, created,
                   bpc, timer, ticks, braced, bsnap, sends>>
    /\ UNCHANGED <<attachVars, signalVars, lifeVars, reporterVars>>

\* PullReturn with close(done) not deferred but placed before the final
\* return nil: the error return of line 65 leaves without closing done.
PullReturn_SkipsClose(ok) ==
    /\ Alive
    /\ ppc = "pull"
    /\ log' = Append(log, [ev |-> "ret", op |-> "PullImage", i |-> idx, ok |-> ok])
    /\ IF ok
         THEN /\ ppc' = "alldone"
              /\ UNCHANGED result
         ELSE /\ ppc' = "returned"
              /\ result' = Wrapf("Failed to pull image", pod[idx].image)
    /\ UNCHANGED <<rpc, pod, idx, progresses, done, created,
                   bpc, timer, ticks, braced, bsnap, sends>>
    /\ UNCHANGED <<attachVars, signalVars, lifeVars, reporterVars>>

\* PullReturn with the early return of line 65 left out: a failed pull goes on
\* to AllDone and CreateContainer.
PullReturn_NoAbort(ok) ==
    /\ Alive
    /\ ppc = "pull"
    /\ log' = Append(log, [ev |-> "ret", op |-> "PullImage", i |-> idx, ok |-> ok])
    /\ ppc' = "alldone"
    /\ UNCHANGED <<rpc, pod, idx, progresses, done, result, created,
                   bpc, timer, ticks, braced, bsnap, sends>>
    /\ UNCHANGED <<attachVars, signalVars, lifeVars, reporterVars>>

\* PullReturn wrapping the error with container.Name instead of container.Image.
PullReturn_NamesContainer(ok) ==
    /\ Alive
    /\ ppc = "pull"
    /\ log' = Append(log, [ev |-> "ret", op |-> "PullImage", i |-> idx, ok |-> ok])
    /\ IF ok
         THEN /\ ppc' = "alldone"
              /\ UNCHANGED result
         ELSE /\ ppc' = "defer"
              /\ result' = Wrapf("Failed to pull image", pod[idx].name)
    /\ UNCHANGED <<rpc, pod, idx, progresses, done, created,
                   bpc, timer, ticks, braced, bsnap, sends>>
    /\ UNCHANGED <<attachVars, signalVars, lifeVars, reporterVars>>

\* Lines 64-66: PullImage returns; on error the handler returns the wrapped
\* error (the deferred close(done) is still to run).
PullReturn(ok) ==
    /\ Alive
    /\ ppc = "pull"
    /\ log' = Append(log, [ev |-> "ret", op |-> "PullImage", i |-> idx, ok |-> ok])
    /\ IF ok
         THEN /\ ppc' = "alldone"
              /\ UNCHANGED result
         ELSE /\ ppc' = "defer"
              /\ result' = Wrapf("Failed to pull image", pod[idx].image)
    /\ UNCHANGED <<rpc, pod, idx, progresses, done, created,
                   bpc, timer, ticks, braced, bsnap, sends>>
    /\ UNCHANGED <<attachVars, signalVars, lifeVars, reporterVars>>

\* MarkAllDone with the progress.AllDone() call of line 67 left out.
MarkAllDone_NoMark ==
    /\ Alive
    /\ ppc = "alldone"
    /\ log' = log \o <<[ev |-> "mark", op |-> "AllDone", i |-> idx, ok |-> TRUE],
                       [ev |-> "call", op |-> "CreateContainer", i |-> idx, ok |-> TRUE]>>
    /\ ppc' = "create"
    /\ UNCHANGED <<rpc, pod, idx, progresses, done, result, created,
                   bpc, timer, ticks, braced, bsnap, sends>>
    /\ UNCHANGED <<attachVars, signalVars, lifeVars, reporterVars>>

\* MarkAllDone with lines 67 and 69 swapped: CreateContainer is issued before
\* the entry is marked.
MarkAllDone_CreateFirst ==
    /\ Alive
    /\ ppc = "alldone"
    /\ progresses' = [progresses EXCEPT ![idx] = AllDone(@)]
    /\ log' = log \o <<[ev |-> "call", op |-> "CreateContainer", i |-> idx, ok |-> TRUE],
                       [ev |-> "mark", op |-> "AllDone", i |-> idx, ok |-> TRUE]>>
    /\ ppc' = "create"
    /\ UNCHANGED <<rpc, pod, idx, done, result, created,
                   bpc, timer, ticks, braced, bsnap, sends>>
    /\ UNCHANGED <<attachVars, signalVars, lifeVars, reporterVars>>

\* Lines 67-69: progress.AllDone() marks the entry, CreateContainer is issued.
MarkAllDone ==
    /\ Alive
    /\ ppc = "alldone"
    /\ progresses' = [progresses EXCEPT ![idx] = AllDone(@)]
    /\ log' = log \o <<[ev |-> "mark", op |-> "AllDone", i |-> idx, ok |-> TRUE],
                       [ev |-> "call", op |-> "CreateContainer", i |-> idx, ok |-> TRUE]>>
    /\ ppc' = "create"
    /\ UNCHANGED <<rpc, pod, idx, done, result, created,
                   bpc, timer, ticks, braced, bsnap, sends>>
    /\ UNCHANGED <<attachVars, signalVars, lifeVars, reporterVars>>

\* CreateReturn that logs a failed create and goes on with the next container
\* instead of returning.
CreateReturn_NoAbort(ok) ==
    /\ Alive
    /\ ppc = "create"
    /\ log' = Append(log, [ev |-> "ret", op |-> "CreateContainer", i |-> idx, ok |-> ok])
    /\ created' = IF ok THEN created \cup {pod[idx].name} ELSE created
    /\ idx' = idx + 1
    /\ ppc' = "loop"
    /\ UNCHANGED <<rpc, pod, progresses, done, result,
                   bpc, timer, ticks, braced, bsnap, sends>>
    /\ UNCHANGED <<attachVars, signalVars, lifeVars, reporterVars>>

\* CreateReturn with a compensating rollback: a failed create removes the
\* containers created by the earlier iterations.
CreateReturn_Rollback(ok) ==
    /\ Alive
    /\ ppc = "create"
    /\ log' = Append(log, [ev |-> "ret", op |-> "CreateContainer", i |-> idx, ok |-> ok])
    /\ IF ok
         THEN /\ created' = created \cup {pod[idx].name}
              /\ idx' = idx + 1
              /\ ppc' = "loop"
              /\ UNCHANGED result
         ELSE /\ ppc' = "defer"
              /\ result' = Wrapf("Failed to create container", pod[idx].name)
              /\ created' = {}
              /\ UNCHANGED idx
    /\ UNCHANGED <<rpc, pod, progresses, done,
                   bpc, timer, ticks, braced, bsnap, sends>>
    /\ UNCHANGED <<attachVars, signalVars, lifeVars, reporterVars>>

\* Lines 69-73: CreateContainer returns; on error return the wrapped error,
\* otherwise go on with the next container.
CreateReturn(ok) ==
    /\ Alive
    /\ ppc = "create"
    /\ log' = Append(log, [ev |-> "ret", op |-> "CreateContainer", i |-> idx, ok |-> ok])
    /\ IF ok
         THEN /\ created' = created \cup {pod[idx].name}
              /\ idx' = idx + 1
              /\ ppc' = "loop"
              /\ UNCHANGED result
         ELSE /\ ppc' = "defer"
              /\ result' = Wrapf("Failed to create container", pod[idx].name)
              /\ UNCHANGED <<created, idx>>
    /\ UNCHANGED <<rpc, pod, progresses, done,
                   bpc, timer, ticks, braced, bsnap, sends>>
    /\ UNCHANGED <<attachVars, signalVars, lifeVars, reporterVars>>

\* Line 75: the loop is over, return nil.
ReturnNil ==
    /\ Alive
    /\ ppc = "loop"
    /\ idx > N
    /\ result' = Nil
    /\ ppc' = "defer"
    /\ UNCHANGED <<rpc, pod, idx, progresses, done, log, created,
                   bpc, timer, ticks, braced, bsnap, sends>>
    /\ UNCHANGED <<attachVars, signalVars, lifeVars, reporterVars>>

\* Line 37: the deferred close(done) runs while the handler returns.
CloseDone ==
    /\ Alive
    /\ ppc = "defer"
    /\ done' = TRUE
    /\ ppc' = "closed"
    /\ UNCHANGED <<rpc, pod, idx, progresses, result, log, created,
                   bpc, timer, ticks, braced, bsnap, sends>>
    /\ UNCHANGED <<attachVars, signalVars, lifeVars, reporterVars>>

\* The handler has returned to its caller (the gRPC server); it waits for
\* nothing: the broadcaster goroutine is not joined.
ReturnToCaller ==
    /\ Alive
    /\ ppc = "closed"
    /\ ppc' = "returned"
    /\ UNCHANGED <<rpc, pod, idx, progresses, done, result, log, created,
                   bpc, timer, ticks, braced, bsnap, sends>>
    /\ UNCHANGED <<attachVars, signalVars, lifeVars, reporterVars>>

\* ----------------------------------------------------------- broadcaster
\* Line 50: the time.After(100ms) channel of the pending select becomes ready.
TimerFire ==
    /\ Alive
    /\ bpc = "select"
    /\ timer = "armed"
    /\ ticks < MaxTicks
    /\ timer' = "fired"
    /\ UNCHANGED <<rpc, pod, ppc, idx, progresses, done, result, log, created,
                   bpc, ticks, braced, bsnap, sends>>
    /\ UNCHANGED <<attachVars, signalVars, lifeVars, reporterVars>>

\* Lines 41,50: select takes the timer case (any ready case may be taken).
SelectTick ==
    /\ Alive
    /\ bpc = "select"
    /\ timer = "fired"
    /\ bpc' = "tickRead"
    /\ timer' = "none"
    /\ ticks' = ticks + 1
    /\ braced' = (ppc = "append")
    /\ UNCHANGED <<rpc, pod, ppc, idx, progresses, done, result, log, created,
                   bsnap, sends>>
    /\ UNCHANGED <<attachVars, signalVars, lifeVars, reporterVars>>

\* Lines 41-42: select takes the done case.
SelectDone ==
    /\ Alive
    /\ bpc = "select"
    /\ done
    /\ bpc' = "doneRead"
    /\ timer' = "none"
    /\ UNCHANGED <<rpc, pod, ppc, idx, progresses, done, result, log, created,
                   ticks, braced, bsnap, sends>>
    /\ UNCHANGED <<attachVars, signalVars, lifeVars, reporterVars>>

\* Line 51: the unsynchronized read of progresses.  A read that did not
\* overlap an append sees the collection as it is.  One that did overlap
\* sees the slice before or after the append (both are covered by the
\* interleavings of this action with AppendEntry), or a torn slice header
\* whose last element is not stored yet, on which the mapping faults.
TickRead ==
    /\ Alive
    /\ bpc = "tickRead"
    /\ \/ /\ bsnap' = MapImageFetchProgressToAPIModel(progresses)
          /\ bpc' = "tickSend"
       \/ /\ braced
          /\ bpc' = "panic"
          /\ UNCHANGED bsnap
    /\ braced' = FALSE
    /\ UNCHANGED <<rpc, pod, ppc, idx, progresses, done, result, log, created,
                   timer, ticks, sends>>
    /\ UNCHANGED <<attachVars, signalVars, lifeVars, reporterVars>>

\* TickSend returning from the goroutine when server.Send fails.
TickSend_StopOnError(ok) ==
    /\ Alive
    /\ bpc = "tickSend"
    /\ sends' = Append(sends, [kind |-> "tick", images |-> bsnap, ok |-> ok,
                               afterDone |-> done, afterReturn |-> (ppc = "returned")])
    /\ bpc' = IF ok THEN "select" ELSE "stopped"
    /\ timer' = IF ok THEN "armed" ELSE "none"
    /\ UNCHANGED <<rpc, pod, ppc, idx, progresses, done, result, log, created,
                   ticks, braced, bsnap>>
    /\ UNCHANGED <<attachVars, signalVars, lifeVars, reporterVars>>

\* Lines 53-55: server.Send; an error is logged only.  The loop goes back to
\* the select with a new timer.
TickSend(ok) ==
    /\ Alive
    /\ bpc = "tickSend"
    /\ sends' = Append(sends, [kind |-> "tick", images |-> bsnap, ok |-> ok,
                               afterDone |-> done, afterReturn |-> (ppc = "returned")])
    /\ bpc' = "select"
    /\ timer' = "armed"
    /\ UNCHANGED <<rpc, pod, ppc, idx, progresses, done, result, log, created,
                   ticks, braced, bsnap>>
    /\ UNCHANGED <<attachVars, signalVars, lifeVars, reporterVars>>

\* Line 44: the read after the receive from the closed done channel.
DoneRead ==
    /\ Alive
    /\ bpc = "doneRead"
    /\ bsnap' = MapImageFetchProgressToAPIModel(progresses)
    /\ bpc' = "doneSend"
    /\ UNCHANGED <<rpc, pod, ppc, idx, progresses, done, result, log, created,
                   timer, ticks, braced, sends>>
    /\ UNCHANGED <<attachVars, signalVars, lifeVars, reporterVars>>

\* DoneSend with the return of line 49 left out: the loop selects again.
DoneSend_KeepLooping(ok) ==
    /\ Alive
    /\ bpc = "doneSend"
    /\ sends' = Append(sends, [kind |-> "final", images |-> bsnap, ok |-> ok,
                               afterDone |-> done, afterReturn |-> (ppc = "returned")])
    /\ bpc' = "select"
    /\ timer' = "armed"
    /\ UNCHANGED <<rpc, pod, ppc, idx, progresses, done, result, log, created,
                   ticks, braced, bsnap>>
    /\ UNCHANGED <<attachVars, signalVars, lifeVars, reporterVars>>

\* Lines 46-49: the last server.Send, then return: the update loop ends.
DoneSend(ok) ==
    /\ Alive
    /\ bpc = "doneSend"
    /\ sends' = Append(sends, [kind |-> "final", images |-> bsnap, ok |-> ok,
                               afterDone |-> done, afterReturn |-> (ppc = "returned")])
    /\ bpc' = "stopped"
    /\ UNCHANGED <<rpc, pod, ppc, idx, progresses, done, result, log, created,
                   timer, ticks, braced, bsnap>>
    /\ UNCHANGED <<attachVars, signalVars, lifeVars, reporterVars>>

\* ================================================================ Attach
\* Lines 167-172.  val[0] of an empty value list is an index out of range.
getMetadataValue(md, key) ==
    IF key \in DOMAIN md
      THEN IF Len(md[key]) = 0
             THEN [panic |-> TRUE, val |-> ""]
             ELSE [panic |-> FALSE, val |-> md[key][1]]
      ELSE [panic |-> FALSE, val |-> ""]

\* AttachIO with the two writers' tags exchanged.
AttachIO_SwappedTags == [Stdin |-> [stream |-> "server"],
                         Stdout |-> [stream |-> "server", stderr |-> TRUE],
                         Stderr |-> [stream |-> "server", stderr |-> FALSE]]

\* stream.NewReader(server), stream.NewWriter(server, false / true)
AttachIO == [Stdin |-> [stream |-> "server"],
             Stdout |-> [stream |-> "server", stderr |-> FALSE],
             Stderr |-> [stream |-> "server", stderr |-> TRUE]]

\* AttachCall with the containerID check of lines 143-145 left out.
AttachCall_NoContainerCheck(c) ==
    /\ rpc = "none"
    /\ rpc' = "Attach"
    /\ ctx' = c
    /\ LET namespace == getMetadataValue(c.md, "namespace")
           containerID == getMetadataValue(c.md, "container")
       IN  IF ~c.ok
             THEN /\ aresult' = Errorf("Incoming attach request don't have metadata")
                  /\ apc' = "returned"
                  /\ UNCHANGED attachCalls
           ELSE IF namespace.panic \/ containerID.panic
             THEN /\ apc' = "panic"
                  /\ UNCHANGED <<aresult, attachCalls>>
           ELSE IF namespace.val = ""
             THEN /\ aresult' = Errorf("You must define 'namespace' metadata")
                  /\ apc' = "returned"
                  /\ UNCHANGED attachCalls
           ELSE /\ attachCalls' = Append(attachCalls,
                        [namespace |-> namespace.val, containerID |-> containerID.val,
                         io |-> AttachIO, ret |-> Pending])
                /\ apc' = "attached"
                /\ UNCHANGED aresult
    /\ UNCHANGED <<createVars, signalVars, lifeVars, reporterVars>>

\* Lines 128-155 up to the provider call: validate the metadata, then invoke
\* s.client.Attach, which blocks.
AttachCall(c) ==
    /\ rpc = "none"
    /\ rpc' = "Attach"
    /\ ctx' = c
    /\ LET namespace == getMetadataValue(c.md, "namespace")
           containerID == getMetadataValue(c.md, "container")
       IN  IF ~c.ok
             THEN /\ aresult' = Errorf("Incoming attach request don't have metadata")
                  /\ apc' = "returned"
                  /\ UNCHANGED attachCalls
           ELSE IF namespace.panic \/ containerID.panic
             THEN /\ apc' = "panic"
                  /\ UNCHANGED <<aresult, attachCalls>>
           ELSE IF namespace.val = ""
             THEN /\ aresult' = Errorf("You must define 'namespace' metadata")
                  /\ apc' = "returned"
                  /\ UNCHANGED attachCalls
           ELSE IF containerID.val = ""
             THEN /\ aresult' = Errorf("You must define 'container' metadata")
                  /\ apc' = "returned"
                  /\ UNCHANGED attachCalls
           ELSE /\ attachCalls' = Append(attachCalls,
                        [namespace |-> namespace.val, containerID |-> containerID.val,
                         io |-> AttachIO, ret |-> Pending])
                /\ apc' = "attached"
                /\ UNCHANGED aresult
    /\ UNCHANGED <<createVars, signalVars, lifeVars, reporterVars>>

\* Line 148: s.client.Attach returns; its result is the handler's result.
AttachReturn(err) ==
    /\ apc = "attached"
    /\ attachCalls' = [attachCalls EXCEPT ![Len(attachCalls)].ret = err]
    /\ aresult' = err
    /\ apc' = "returned"
    /\ UNCHANGED <<rpc, ctx>>
    /\ UNCHANGED <<createVars, signalVars, lifeVars, reporterVars>>

\* ================================================================ Signal
\* syscall.Signal(req.Signal): an int32 converted to the int-based Signal type
SyscallSignal(n) == n

\* Lines 159-160: the provider is invoked with the converted signal number.
SignalCall(req) ==
    /\ rpc = "none"
    /\ rpc' = "Signal"
    /\ sreq' = req
    /\ signalCalls' = Append(signalCalls,
            [namespace |-> req.Namespace, containerID |-> req.ContainerID,
             signal |-> SyscallSignal(req.Signal), ret |-> Pending])
    /\ spc' = "signalling"
    /\ UNCHANGED sresult
    /\ UNCHANGED <<createVars, attachVars, lifeVars, reporterVars>>

\* SignalReturn wrapping the provider's error with context instead of
\* returning it as it is.
SignalReturn_Wraps(err) ==
    /\ spc = "signalling"
    /\ signalCalls' = [signalCalls EXCEPT ![Len(signalCalls)].ret = err]
    /\ sresult' = IF err = Nil THEN Nil ELSE Wrapf("Failed to signal container", sreq.ContainerID)
    /\ spc' = "returned"
    /\ UNCHANGED <<rpc, sreq>>
    /\ UNCHANGED <<createVars, attachVars, lifeVars, reporterVars>>

\* Lines 160-164: the provider call returns; its error is returned unchanged.
SignalReturn(err) ==
    /\ spc = "signalling"
    /\ signalCalls' = [signalCalls EXCEPT ![Len(signalCalls)].ret = err]
    /\ sresult' = err
    /\ spc' = "returned"
    /\ UNCHANGED <<rpc, sreq>>
    /\ UNCHANGED <<createVars, attachVars, lifeVars, reporterVars>>

\* ================================================================ Start
\* The request of Start and Delete: req.Namespace, req.Name.
PodRequest == [Namespace |-> "ns1", Name |-> "pod1"]

\* Lines 79-80: Start issues s.client.GetContainers.
StartCall ==
    /\ rpc = "none"
    /\ rpc' = "Start"
    /\ lpc' = "get"
    /\ UNCHANGED <<lcontainers, lidx, lcalls, affected, lresult>>
    /\ UNCHANGED <<createVars, attachVars, signalVars, reporterVars>>

\* Lines 80-83: GetContainers returns; on error return (nil, wrapped error).
StartGetContainers(ok, cs) ==
    /\ rpc = "Start"
    /\ lpc = "get"
    /\ lcalls' = Append(lcalls, [op |-> "GetContainers", name |-> PodRequest.Name, ok |-> ok])
    /\ IF ok
         THEN /\ lcontainers' = cs
              /\ lidx' = 1
              /\ lpc' = "loop"
              /\ UNCHANGED lresult
         ELSE /\ lresult' = NoResponse(Wrapf("Failed to find containers to start for pod",
                                             <<PodRequest.Name, PodRequest.Namespace>>))
              /\ lpc' = "returned"
              /\ UNCHANGED <<lcontainers, lidx>>
    /\ UNCHANGED <<rpc, affected>>
    /\ UNCHANGED <<createVars, attachVars, signalVars, reporterVars>>

\* Lines 85-91: StartContainer for the container the loop is at; on error
\* return (nil, wrapped error), otherwise go on with the next container.
StartContainer(ok) ==
    /\ rpc = "Start"
    /\ lpc = "loop"
    /\ lidx <= Len(lcontainers)
    /\ lcalls' = Append(lcalls, [op |-> "StartContainer", name |-> lcontainers[lidx].name, ok |-> ok])
    /\ IF ok
         THEN /\ affected' = affected \cup {lcontainers[lidx].name}
              /\ lidx' = lidx + 1
              /\ UNCHANGED <<lpc, lresult>>
         ELSE /\ lresult' = NoResponse(Wrapf("Failed to start container", lcontainers[lidx].name))
              /\ lpc' = "returned"
              /\ UNCHANGED <<affected, lidx>>
    /\ UNCHANGED <<rpc, lcontainers>>
    /\ UNCHANGED <<createVars, attachVars, signalVars, reporterVars>>

\* Lines 93-95: every container is started, return the pod view and nil.
StartReturn ==
    /\ rpc = "Start"
    /\ lpc = "loop"
    /\ lidx > Len(lcontainers)
    /\ lresult' = [hasPod |-> TRUE,
                   pod |-> CreatePodAPIModel(PodRequest.Namespace, PodRequest.Name, lcontainers),
                   err |-> Nil]
    /\ lpc' = "returned"
    /\ UNCHANGED <<rpc, lcontainers, lidx, lcalls, affected>>
    /\ UNCHANGED <<createVars, attachVars, signalVars, reporterVars>>

\* ================================================================ Delete
\* Lines 99-100: Delete issues s.client.GetContainers.
DeleteCall ==
    /\ rpc = "none"
    /\ rpc' = "Delete"
    /\ lpc' = "get"
    /\ UNCHANGED <<lcontainers, lidx, lcalls, affected, lresult>>
    /\ UNCHANGED <<createVars, attachVars, signalVars, reporterVars>>

\* Lines 100-103: GetContainers returns; on error return (nil, wrapped error).
DeleteGetContainers(ok, cs) ==
    /\ rpc = "Delete"
    /\ lpc = "get"
    /\ lcalls' = Append(lcalls, [op |-> "GetContainers", name |-> PodRequest.Name, ok |-> ok])
    /\ IF ok
         THEN /\ lcontainers' = cs
              /\ lidx' = 1
              /\ lpc' = "loop"
              /\ UNCHANGED lresult
         ELSE /\ lresult' = NoResponse(Wrapf("Cannot fetch pod containers, cannot delete pod",
                                             PodRequest.Name))
              /\ lpc' = "returned"
              /\ UNCHANGED <<lcontainers, lidx>>
    /\ UNCHANGED <<rpc, affected>>
    /\ UNCHANGED <<createVars, attachVars, signalVars, reporterVars>>

\* StopContainer going on with the next container after a failed stop.
StopContainer_KeepsGoing(ok) ==
    /\ rpc = "Delete"
    /\ lpc = "loop"
    /\ lidx <= Len(lcontainers)
    /\ lcalls' = Append(lcalls, [op |-> "StopContainer", name |-> lcontainers[lidx].name, ok |-> ok])
    /\ affected' = IF ok THEN affected \cup {lcontainers[lidx].name} ELSE affected
    /\ lidx' = lidx + 1
    /\ UNCHANGED <<rpc, lcontainers, lpc, lresult>>
    /\ UNCHANGED <<createVars, attachVars, signalVars, reporterVars>>

\* Lines 105-110: StopContainer for the container the loop is at; on error
\* return (nil, wrapped error), otherwise go on with the next container.
StopContainer(ok) ==
    /\ rpc = "Delete"
    /\ lpc = "loop"
    /\ lidx <= Len(lcontainers)
    /\ lcalls' = Append(lcalls, [op |-> "StopContainer", name |-> lcontainers[lidx].name, ok |-> ok])
    /\ IF ok
         THEN /\ affected' = affected \cup {lcontainers[lidx].name}
              /\ lidx' = lidx + 1
              /\ UNCHANGED <<lpc, lresult>>
         ELSE /\ lresult' = NoResponse(Wrapf("Error while stopping container", lcontainers[lidx].name))
              /\ lpc' = "returned"
              /\ UNCHANGED <<affected, lidx>>
    /\ UNCHANGED <<rpc, lcontainers>>
    /\ UNCHANGED <<createVars, attachVars, signalVars, reporterVars>>

\* Lines 111-113: every container is stopped, return the pod view and nil.
DeleteReturn ==
    /\ rpc = "Delete"
    /\ lpc = "loop"
    /\ lidx > Len(lcontainers)
    /\ lresult' = [hasPod |-> TRUE,
                   pod |-> CreatePodAPIModel(PodRequest.Namespace, PodRequest.Name, lcontainers),
                   err |-> Nil]
    /\ lpc' = "returned"
    /\ UNCHANGED <<rpc, lcontainers, lidx, lcalls, affected>>
    /\ UNCHANGED <<createVars, attachVars, signalVars, reporterVars>>

\* ======================================================== State Reporter
\* The history keeps the last MaxHistory events of the endless loop.
Remember(h, e) ==
    IF Len(h) < MaxHistory THEN Append(h, e) ELSE Append(Tail(h), e)

\* console.go line 29: Start enters its loop.
ReporterStart ==
    /\ rpc = "none"
    /\ rpc' = "Reporter"
    /\ rpos' = "fetch"
    /\ UNCHANGED rhist
    /\ UNCHANGED <<createVars, attachVars, signalVars, lifeVars>>

\* ReporterFetch leaving the loop when the fetch fails.
ReporterFetch_ReturnsOnError(ok, states) ==
    /\ rpos = "fetch"
    /\ rhist' = Remember(rhist,
                  IF ok THEN [ev |-> "fetch", ok |-> TRUE, errors |-> 0, reports |-> 1,
                              lines |-> states]
                        ELSE [ev |-> "fetch", ok |-> FALSE, errors |-> 1, reports |-> 0,
                              lines |-> {}])
    /\ rpos' = IF ok THEN "sleep" ELSE "returned"
    /\ UNCHANGED rpc
    /\ UNCHANGED <<createVars, attachVars, signalVars, lifeVars>>

\* console.go lines 31-36 and 42-50: getCurrentState returns; an error is
\* logged, otherwise report logs one line for each namespace of the state.
ReporterFetch(ok, states) ==
    /\ rpos = "fetch"
    /\ rhist' = Remember(rhist,
                  IF ok THEN [ev |-> "fetch", ok |-> TRUE, errors |-> 0, reports |-> 1,
                              lines |-> states]
                        ELSE [ev |-> "fetch", ok |-> FALSE, errors |-> 1, reports |-> 0,
                              lines |-> {}])
    /\ rpos' = "sleep"
    /\ UNCHANGED rpc
    /\ UNCHANGED <<createVars, attachVars, signalVars, lifeVars>>

\* console.go line 37: time.Sleep(r.interval) returns, the loop starts over.
ReporterSleep ==
    /\ rpos = "sleep"
    /\ rhist' = Remember(rhist, [ev |-> "sleep", ok |-> TRUE, errors |-> 0, reports |-> 0,
                                 lines |-> {}])
    /\ rpos' = "fetch"
    /\ UNCHANGED rpc
    /\ UNCHANGED <<createVars, attachVars, signalVars, lifeVars>>

\* ================================================================ Next
Next ==
    \/ \E n \in 0..MaxContainers : CreateCall(n)
    \/ BeginAppend
    \/ AppendEntry
    \/ \E ok \in BOOLEAN : PullReturn(ok)
    \/ MarkAllDone
    \/ \E ok \in BOOLEAN : CreateReturn(ok)
    \/ ReturnNil
    \/ CloseDone
    \/ ReturnToCaller
    \/ TimerFire
    \/ SelectTick
    \/ SelectDone
    \/ TickRead
    \/ \E ok \in BOOLEAN : TickSend(ok)
    \/ DoneRead
    \/ \E ok \in BOOLEAN : DoneSend(ok)
    \/ \E c \in IncomingContexts : AttachCall(c)
    \/ \E err \in {Nil, ProviderError} : AttachReturn(err)
    \/ \E req \in SignalRequests : SignalCall(req)
    \/ \E err \in {Nil, ProviderError} : SignalReturn(err)
    \/ StartCall
    \/ \E ok \in BOOLEAN, cs \in ContainerLists : StartGetContainers(ok, cs)
    \/ \E ok \in BOOLEAN : StartContainer(ok)
    \/ StartReturn
    \/ DeleteCall
    \/ \E ok \in BOOLEAN, cs \in ContainerLists : DeleteGetContainers(ok, cs)
    \/ \E ok \in BOOLEAN : StopContainer(ok)
    \/ DeleteReturn
    \/ ReporterStart
    \/ \E ok \in BOOLEAN, states \in SUBSET Namespaces : ReporterFetch(ok, states)
    \/ ReporterSleep

Spec == Init /\ [][Next]_vars

\* The steps of the broadcaster goroutine (server.go lines 39-58).
BroadcasterStep ==
    \/ SelectTick
    \/ SelectDone
    \/ TickRead
    \/ \E ok \in BOOLEAN : TickSend(ok)
    \/ DoneRead
    \/ \E ok \in BOOLEAN : DoneSend(ok)

\* The scheduler runs a goroutine that can take a step, every server.Send
\* returns, and a select whose done case is ready again and again takes it
\* (Go picks among the ready cases at random).
FairSpec == Spec /\ WF_vars(BroadcasterStep) /\ SF_vars(SelectDone)

\* ================================================================ claims
\* Positions of the log at which a provider call returned an error.
FailedRets == {p \in DOMAIN log : log[p].ev = "ret" /\ ~log[p].ok}

Failed == FailedRets # {}

\* The first failing step: its position in the log, its container index k
\* and the provider operation that failed.
FirstFailure == CHOOSE p \in FailedRets : \A q \in FailedRets : p <= q

FailedK == log[FirstFailure].i

FailedOp == log[FirstFailure].op

\* The handler has its return value: only the deferred close(done) and the
\* return to the caller may follow.
Ended == ppc \in {"defer", "closed", "returned"}

FinalSends == {j \in DOMAIN sends : sends[j].kind = "final"}

SendsAfterTermination == {j \in DOMAIN sends : sends[j].afterDone}

\* The collection after the loop handled containers 1..k-1 and stopped at k.
TerminalProgress(k, lastComplete) ==
    [j \in 1..k |->
        [name |-> ContainerSpec(j).name, image |-> ContainerSpec(j).image,
         complete |-> (j < k \/ lastComplete)]]

\* ---------------------------------------------------------------- C1
\* C1 as stated: every Send issued after close(done) is the final one (no
\* timer-triggered Send after termination), and once the broadcaster has
\* stopped exactly one Send was issued after termination.
C1_OneSendAfterTermination ==
    /\ \A j \in SendsAfterTermination : sends[j].kind = "final"
    /\ bpc = "stopped" => Cardinality(SendsAfterTermination) = 1

\* C1 as amended: the done case is taken only after close(done); it issues
\* one final Send, which is the last Send of the call (the broadcaster has
\* stopped exactly when it was issued).  Timer-triggered Sends may still be
\* issued after close(done), but only before the final Send.
C1_FinalSendOnceAndLast ==
    /\ Cardinality(FinalSends) <= 1
    /\ \A j \in FinalSends : j = Len(sends) /\ sends[j].afterDone
    /\ (bpc = "stopped") <=> (FinalSends # {})
    /\ bpc \in {"doneRead", "doneSend", "stopped"} => done

C1_Witness ==
    /\ bpc = "stopped"
    /\ \E j \in DOMAIN sends : sends[j].kind = "tick" /\ sends[j].afterDone

\* ---------------------------------------------------------------- C2
\* C2: when every PullImage and CreateContainer of the N containers
\* succeeded, the final snapshot sent has exactly N entries, all complete,
\* in declared container order.
C2_TerminalSnapshotAllComplete ==
    (Ended /\ ~Failed) =>
        \A j \in FinalSends :
            sends[j].images =
                [c \in 1..N |-> [containerID |-> ContainerSpec(c).name,
                                 image |-> ContainerSpec(c).image,
                                 resolved |-> TRUE]]

C2_Witness == Ended /\ ~Failed /\ N >= 2 /\ FinalSends # {}

\* ---------------------------------------------------------------- C3
\* C3 as stated: when container k is the first to fail, the terminal
\* progress state has entries only for 1..k-1, none for k..N.
C3_NoEntryFromFailedOn ==
    (Ended /\ Failed) =>
        /\ Len(progresses) = FailedK - 1
        /\ \A j \in FinalSends : Len(sends[j].images) = FailedK - 1

\* C3 as amended: the terminal progress state has entries exactly for
\* containers 1..k in declared order: 1..k-1 complete, the entry of the
\* failing container k incomplete when its PullImage failed and complete
\* when its CreateContainer failed; there is no entry for k+1..N.
C3_EntriesUpToFailed ==
    (Ended /\ Failed) =>
        /\ progresses = TerminalProgress(FailedK, FailedOp = "CreateContainer")
        /\ \A j \in FinalSends :
              sends[j].images = MapImageFetchProgressToAPIModel(
                  TerminalProgress(FailedK, FailedOp = "CreateContainer"))

C3_Witness ==
    /\ Ended /\ Failed /\ FailedK = 2 /\ N = 3
    /\ FailedOp = "PullImage"
    /\ FinalSends # {}

\* ---------------------------------------------------------------- C4
\* C4: once container k has failed, the entries of 1..k-1 are complete, and
\* containers k+1..N appear neither in the collection nor in any snapshot
\* sent (tick or final).
C4_EarlierCompleteLaterAbsent ==
    Failed =>
        /\ Len(progresses) <= FailedK
        /\ \A j \in 1..(FailedK - 1) :
              /\ j <= Len(progresses)
              /\ progresses[j].name = ContainerSpec(j).name
              /\ progresses[j].complete
        /\ \A j \in DOMAIN progresses :
              \A c \in (FailedK + 1)..N : progresses[j].name # ContainerSpec(c).name
        /\ \A s \in DOMAIN sends : \A e \in DOMAIN sends[s].images :
              \A c \in (FailedK + 1)..N :
                  sends[s].images[e].containerID # ContainerSpec(c).name

C4_Witness ==
    /\ Failed /\ FailedK = 2 /\ N = 3
    /\ ppc = "returned"
    /\ Len(sends) >= 2
    /\ bpc = "stopped"

\* ---------------------------------------------------------------- C5
\* C5: the failed return of container k is the last provider interaction of
\* the call: nothing is issued for k+1..N, no CreateContainer for k after a
\* failed pull, no stop/delete of the containers 1..k-1, which stay created.
C5_StopsAtFirstFailure ==
    Failed =>
        /\ FirstFailure = Len(log)
        /\ \A p \in DOMAIN log : log[p].i <= FailedK
        /\ FailedOp = "PullImage" =>
              \A p \in DOMAIN log :
                  ~(log[p].op = "CreateContainer" /\ log[p].i = FailedK)
        /\ \A p \in DOMAIN log : log[p].op \in {"PullImage", "AllDone", "CreateContainer"}
        /\ created = {ContainerSpec(j).name : j \in 1..(FailedK - 1)}

C5_Witness ==
    /\ Failed /\ FailedK = 3 /\ N = 3
    /\ FailedOp = "CreateContainer"
    /\ ppc = "returned"

\* ---------------------------------------------------------------- C6
\* C6: Create's result is an error exactly when a step failed; the error
\* carries the image of container k for a failed pull and the name of
\* container k for a failed create; with no failure the result is nil.
C6_ErrorNamesFirstFailure ==
    /\ Ended =>
          IF Failed
            THEN result = IF FailedOp = "PullImage"
                            THEN Wrapf("Failed to pull image", ContainerSpec(FailedK).image)
                            ELSE Wrapf("Failed to create container", ContainerSpec(FailedK).name)
            ELSE result = Nil
    /\ ~Ended => result = Pending

C6_Witness ==
    /\ ppc = "returned"
    /\ Failed /\ FailedK = 2 /\ FailedOp = "PullImage"

\* ---------------------------------------------------------------- C7
\* What may follow event a in the log of one Create call.
Follows(a, b) ==
    \/ a.ev = "call" /\ b.ev = "ret" /\ b.op = a.op /\ b.i = a.i
    \/ a.ev = "ret" /\ a.op = "PullImage" /\ a.ok
         /\ b.ev = "mark" /\ b.i = a.i
    \/ a.ev = "mark"
         /\ b.ev = "call" /\ b.op = "CreateContainer" /\ b.i = a.i
    \/ a.ev = "ret" /\ a.op = "CreateContainer" /\ a.ok
         /\ b.ev = "call" /\ b.op = "PullImage" /\ b.i = a.i + 1

CallsInFlight ==
    Cardinality({p \in DOMAIN log : log[p].ev = "call"})
        - Cardinality({p \in DOMAIN log : log[p].ev = "ret"})

\* C7: the provider calls of a Create call are sequential in declaration
\* order: PullImage(i) returns, then entry i is marked, then
\* CreateContainer(i) is issued and returns, then PullImage(i+1) is issued;
\* at most one provider call is in flight.
C7_StrictlySequential ==
    /\ log # << >> =>
          /\ log[1].ev = "call" /\ log[1].op = "PullImage" /\ log[1].i = 1
    /\ \A p \in 2..Len(log) : Follows(log[p - 1], log[p])
    /\ CallsInFlight \in {0, 1}
    /\ CallsInFlight = 1 <=> ppc \in {"pull", "create"}
    /\ \A p \in DOMAIN log : log[p].ev = "mark" => progresses[log[p].i].complete

C7_Witness ==
    /\ ppc = "create" /\ idx = 3
    /\ \E p \in DOMAIN log : log[p].ev = "ret" /\ log[p].op = "CreateContainer" /\ log[p].i = 2

\* ---------------------------------------------------------------- C8
\* C8: the one terminal snapshot is sent before Create returns to its
\* caller: no final Send is issued after the return, and the final Send has
\* been issued when the handler has returned.
C8_TerminalSendBeforeReturn ==
    /\ \A j \in FinalSends : ~sends[j].afterReturn
    /\ ppc = "returned" => FinalSends # {}

\* ---------------------------------------------------------------- C9
MissingOrEmpty(md, key) == key \notin DOMAIN md \/ (md[key] # << >> /\ md[key][1] = "")

\* A key is present with an empty list of values: reading it faults.
HasNoValue(md) == \E key \in DOMAIN md : md[key] = << >>

C10_UnrecognizedSignalRejected ==
    (rpc = "Signal" /\ sreq.Signal \notin RecognizedSignals) =>
        /\ signalCalls = << >>
        /\ spc = "returned" => sresult.status = "error"

\* ---------------------------------------------------------------- C11
\* C11: for a Signal request with a recognized number the provider gets
\* exactly one Signal call, carrying the request's namespace, container id
\* and number untransformed; the handler has not returned while that call is
\* in flight and then returns what the provider returned: nil on success,
\* the provider's error unchanged otherwise.
C11_SignalForwardedOnce ==
    (rpc = "Signal" /\ sreq.Signal \in RecognizedSignals) =>
        /\ Len(signalCalls) = 1
        /\ signalCalls[1].namespace = sreq.Namespace
        /\ signalCalls[1].containerID = sreq.ContainerID
        /\ signalCalls[1].signal = sreq.Signal
        /\ spc = "signalling" => (sresult = Pending /\ signalCalls[1].ret = Pending)
        /\ spc = "returned" =>
              /\ signalCalls[1].ret \in {Nil, ProviderError}
              /\ sresult = signalCalls[1].ret

C11_Witness ==
    /\ rpc = "Signal" /\ sreq.Signal = 9 /\ sreq.ContainerID = "c1"
    /\ spc = "returned"
    /\ sresult = ProviderError

\* ---------------------------------------------------------------- C16
ValidMetadata(c) ==
    /\ c.ok
    /\ "namespace" \in DOMAIN c.md /\ c.md["namespace"] # << >> /\ c.md["namespace"][1] # ""
    /\ "container" \in DOMAIN c.md /\ c.md["container"] # << >> /\ c.md["container"][1] # ""

\* C16: when the metadata passes validation the provider's Attach is invoked
\* exactly once, with the namespace and container id of the metadata and with
\* one reader and two writers on the same stream, the output writer tagged
\* false and the error writer tagged true; the handler does not return while
\* the call is in flight and returns exactly what the provider returned.
C16_AttachInvokesProviderOnce ==
    (rpc = "Attach" /\ ValidMetadata(ctx)) =>
        /\ Len(attachCalls) = 1
        /\ attachCalls[1].namespace = ctx.md["namespace"][1]
        /\ attachCalls[1].containerID = ctx.md["container"][1]
        /\ attachCalls[1].io.Stdin.stream = "server"
        /\ attachCalls[1].io.Stdout = [stream |-> "server", stderr |-> FALSE]
        /\ attachCalls[1].io.Stderr = [stream |-> "server", stderr |-> TRUE]
        /\ apc \in {"attached", "returned"}
        /\ apc = "attached" => (aresult = Pending /\ attachCalls[1].ret = Pending)
        /\ apc = "returned" =>
              /\ attachCalls[1].ret \in {Nil, ProviderError}
              /\ aresult = attachCalls[1].ret

C16_Witness ==
    /\ rpc = "Attach" /\ ValidMetadata(ctx)
    /\ ctx.md["namespace"] = <<"b", "">> /\ ctx.md["container"] = <<"a">>
    /\ apc = "returned" /\ aresult = ProviderError

\* ---------------------------------------------------------------- C12
\* The value Create returns as the provider outcomes in the log decide it.
ExpectedResult ==
    IF ~Failed THEN Nil
    ELSE IF FailedOp = "PullImage"
      THEN Wrapf("Failed to pull image", ContainerSpec(FailedK).image)
      ELSE Wrapf("Failed to create container", ContainerSpec(FailedK).name)

\* The step issues a Send that fails.
FailedSendStep ==
    /\ Len(sends') = Len(sends) + 1
    /\ ~sends'[Len(sends')].ok

\* C12: a failed Send changes nothing of the pipeline (position, collection,
\* provider calls, done, result) and does not stop the broadcaster: after a
\* failed tick Send it is back at the select with a new timer, and only the
\* final Send, failed or not, ends it; Create's result is decided by the
\* provider outcomes alone.
C12_FailedSendAbsorbed ==
    /\ [][FailedSendStep =>
            /\ UNCHANGED <<pod, ppc, idx, progresses, done, result, log, created>>
            /\ sends'[Len(sends')].kind = "tick" => (bpc' = "select" /\ timer' = "armed")
            /\ sends'[Len(sends')].kind = "final" => bpc' = "stopped"]_vars
    /\ [](Ended => result = ExpectedResult)
    /\ [](bpc = "stopped" => sends[Len(sends)].kind = "final")

C12_Witness ==
    /\ \E j \in DOMAIN sends : sends[j].kind = "tick" /\ ~sends[j].ok /\ ~sends[j].afterDone
    /\ bpc = "stopped"
    /\ ppc = "returned" /\ ~Failed /\ N >= 2

\* ---------------------------------------------------------------- C13
\* C13: done is closed on every path on which the handler ends (nil, pull
\* error, create error) and only then: never while a provider call is in
\* flight or the loop is still running; it is closed in one step (the
\* deferred close) and stays closed.
C13_TerminationFiresOnceAtEnd ==
    /\ [](done <=> ppc \in {"closed", "returned"})
    /\ [](done => (CallsInFlight = 0 /\ result = ExpectedResult))
    /\ [][done => done']_vars
    /\ [][(~done /\ done') => (ppc = "defer" /\ ppc' = "closed")]_vars

C13_Witness ==
    /\ done /\ Failed /\ FailedOp = "PullImage" /\ FailedK = 2
    /\ bpc = "stopped"

\* ---------------------------------------------------------------- C14
\* b extends a: at least as long, the same containers at the same places,
\* and whatever is complete in a is complete in b.
Extends(a, b) ==
    /\ Len(a) <= Len(b)
    /\ \A j \in 1..Len(a) :
          /\ b[j].name = a[j].name
          /\ b[j].image = a[j].image
          /\ a[j].complete => b[j].complete

SnapshotExtends(a, b) ==
    /\ Len(a) <= Len(b)
    /\ \A j \in 1..Len(a) :
          /\ b[j].containerID = a[j].containerID
          /\ b[j].image = a[j].image
          /\ a[j].resolved => b[j].resolved

DeclaredPrefix(im) ==
    /\ Len(im) <= N
    /\ \A j \in 1..Len(im) :
          /\ im[j].containerID = ContainerSpec(j).name
          /\ im[j].image = ContainerSpec(j).image

\* C14: every step leaves the collection extended (append-only, no
\* reordering, no complete entry made incomplete); every snapshot sent is a
\* prefix of the declared containers and extends every snapshot sent before.
C14_AppendOnlyMonotone ==
    /\ [][Extends(progresses, progresses')]_vars
    /\ [](\A j \in DOMAIN sends :
            /\ DeclaredPrefix(sends[j].images)
            /\ \A i \in 1..(j - 1) : SnapshotExtends(sends[i].images, sends[j].images))

C14_Witness ==
    /\ Len(sends) = 3
    /\ Len(sends[1].images) = 1 /\ ~sends[1].images[1].resolved
    /\ Len(sends[2].images) = 2 /\ sends[2].images[1].resolved
    /\ Len(sends[3].images) = 2 /\ sends[3].images[2].resolved

\* ---------------------------------------------------------------- C15
\* C15: in no state is the broadcaster reading the progress collection
\* while the pipeline is appending to it or marking an entry complete.
C15_NoConcurrentReadWrite ==
    ~(bpc \in {"tickRead", "doneRead"} /\ ppc \in {"append", "alldone"})

\* ---------------------------------------------------------------- C19
\* C19: Attach never faults: for every incoming context it has either
\* returned a validation error or invoked the provider.
C19_AttachNeverFaults ==
    rpc = "Attach" =>
        /\ apc # "panic"
        /\ \/ (apc = "returned" /\ aresult.status = "error" /\ attachCalls = << >>)
           \/ Len(attachCalls) = 1

\* ---------------------------------------------------------------- C17
\* C17: the reporter loop has no end: it is always at the fetch or in the
\* sleep and its next step is always possible; fetches and sleeps strictly
\* alternate whatever the fetches return; a failed fetch logs one error and
\* reports nothing, a successful one makes one report.
C17_ReporterLoopsForever ==
    rpc = "Reporter" =>
        /\ rpos \in {"fetch", "sleep"}
        /\ ENABLED (ReporterSleep \/ \E ok \in BOOLEAN, states \in SUBSET Namespaces :
                                        ReporterFetch(ok, states))
        /\ \A p \in 2..Len(rhist) : (rhist[p - 1].ev = "fetch") <=> (rhist[p].ev = "sleep")
        /\ rpos = "sleep" <=> (rhist # << >> /\ rhist[Len(rhist)].ev = "fetch")
        /\ \A p \in DOMAIN rhist :
              rhist[p].ev = "fetch" =>
                  IF rhist[p].ok THEN rhist[p].reports = 1 /\ rhist[p].errors = 0
                                 ELSE rhist[p].reports = 0 /\ rhist[p].errors = 1

C17_Witness ==
    /\ rpc = "Reporter" /\ rpos = "sleep"
    /\ Len(rhist) = MaxHistory
    /\ \E p \in 1..(Len(rhist) - 2) :
          /\ rhist[p].ev = "fetch" /\ ~rhist[p].ok
          /\ rhist[p + 1].ev = "sleep"
          /\ rhist[p + 2].ev = "fetch" /\ rhist[p + 2].ok

\* ---------------------------------------------------------------- C18
\* C18: the broadcaster runs from the start of Create; once the pipeline has
\* ended (done closed) it eventually stops, and once stopped it stays
\* stopped and sends nothing; while the pipeline is inside a provider call
\* it has not taken the done case.
C18_BroadcasterTerminates ==
    /\ [](rpc = "Create" => bpc # "idle")
    /\ (ppc \in {"closed", "returned"}) ~> (bpc = "stopped")
    /\ [][bpc = "stopped" => (bpc' = "stopped" /\ sends' = sends)]_vars
    /\ [](ppc \in {"pull", "create"} => bpc \notin {"doneRead", "doneSend", "stopped"})

\* ---------------------------------------------------------------- C20
\* The provider call the handler makes for each container.
LifeOp == IF rpc = "Start" THEN "StartContainer" ELSE "StopContainer"

AllCallsOk == \A p \in DOMAIN lcalls : lcalls[p].ok

\* C20: Start and Delete call the provider for the containers in the order
\* GetContainers returned them; a failed call is the last call of the
\* handler (none at all after a failed GetContainers), which then returns
\* an error and no pod view; the containers handled before it stay started
\* (stopped); a pod view is returned only when every call succeeded.
C20_LifecycleAbortsOnFirstFailure ==
    rpc \in {"Start", "Delete"} =>
        /\ lcalls # << >> => lcalls[1].op = "GetContainers"
        /\ \A p \in 2..Len(lcalls) :
              /\ lcalls[1].ok
              /\ lcalls[p].op = LifeOp
              /\ lcalls[p].name = lcontainers[p - 1].name
        /\ \A p \in DOMAIN lcalls :
              ~lcalls[p].ok =>
                  /\ p = Len(lcalls)
                  /\ lpc = "returned"
                  /\ ~lresult.hasPod
                  /\ lresult.err.status = "error"
        /\ affected = {lcalls[p].name : p \in {q \in 2..Len(lcalls) : lcalls[q].ok}}
        /\ lpc = "returned" =>
              IF AllCallsOk
                THEN /\ Len(lcalls) = 1 + Len(lcontainers)
                     /\ lresult = [hasPod |-> TRUE,
                                   pod |-> CreatePodAPIModel(PodRequest.Namespace,
                                                             PodRequest.Name, lcontainers),
                                   err |-> Nil]
                ELSE ~lresult.hasPod
        /\ lpc # "returned" => lresult = NoResponse(Pending)

C20_Witness ==
    /\ rpc = "Delete" /\ lpc = "returned"
    /\ Len(lcontainers) = 3 /\ lcontainers[1].name = <<"c", 3>>
    /\ Len(lcalls) = 3 /\ ~lcalls[3].ok
    /\ affected = {<<"c", 3>>}

====
